---- MODULE Spec2Model ----
(***************************************************************************)
(* A model of a2d2_to_ros: the timestamp conversion, the validation of an  *)
(* npz point-cloud data set and the construction of a sensor basis, as     *)
(* implemented in src/src/a2d2_to_ros/lib_a2d2_to_ros.cpp and used by      *)
(* src/src/sensor_fusion_config.cpp.                                       *)
(*                                                                         *)
(* 64-bit integers are sequences of 8 bytes, most significant first, so    *)
(* that division, multiplication, subtraction and the casts of the code    *)
(* keep their width; a uint32_t is a sequence of 4 bytes.                  *)
(*                                                                         *)
(* The three parts share no state. Each has its own next-state relation    *)
(* and specification from the one initial state: SpecTime, SpecNpz and     *)
(* SpecPose.                                                               *)
(***************************************************************************)
EXTENDS Integers, Sequences, FiniteSets, TLC

VARIABLES
  call,      \* the library function called last ("none" before any call)
  in_secs,   \* time converter: whole seconds of the argument (uint64 bytes)
  in_musecs, \* time converter: microseconds of the argument below one second
  time,      \* time converter: the uint64_t argument, 1000000*in_secs + in_musecs
  valid,     \* the value valid_ros_timestamp(time) returned, when called last
  stamp,     \* the ros::Time a2d2_timestamp_to_ros_time(time) returned, when
             \* called last (NoStamp otherwise)
  npz,       \* validator: the data set, a map from field name to NpyArray
  report,    \* validator: what verify_npz_structure(npz) returned and logged
  edit,      \* validator: the change made to the data set validated before
  prev_ok,   \* validator: whether the data set validated before was accepted
  edits,     \* validator: the number of changes made to the first data set
  pose_pc,   \* driver: its place in the computation of one sensor pose
  x_axis,    \* driver: the x-axis of the sensor view in the configuration
  y_axis,    \* driver: the y-axis of the sensor view in the configuration
  origin,    \* driver: the origin of the sensor view in the configuration
  basis,     \* driver: the basis get_orthonormal_basis returned
  Tx,        \* driver: the transform Tx_global_sensor returned
  bbox_pc,   \* ego box: "idle", "verified" or "built"
  bbox,      \* ego box: x_min, x_max, y_min, y_max, z_min, z_max
  ego_bbox_valid, \* ego box: what verify_ego_bbox_params(bbox) returned
  ego_shape_msg,  \* ego box: the message build_ego_shape_msg(bbox) returned
  it_pc,     \* lidar frame: the converter's place in its conversion
  lidar_npz, \* lidar frame: the data set read from the npz file
  npz_valid, \* lidar frame: "valid" or "invalid" as verify_npz_structure
             \* returned for lidar_npz, "unverified" before
  msg,       \* lidar frame: the PointCloud2 message build_pc2_msg returned
  iters,     \* lidar frame: the A2D2_PointCloudIterators over msg
  records,   \* lidar frame: the points the converter visited through iters
  sort_pc,   \* signals: "building" the vector of DataPairs, or "sorted"
  data_pairs, \* signals: the std::vector<DataPair>
  sources,   \* signals: the microseconds each DataPair was built from
  unsorted,  \* signals: data_pairs and sources as they were before std::sort
  name_pc,   \* names: "idle", "frame" after frame_from_filename, "camera"
             \* after get_camera_name_from_frame_name
  filename,  \* names: the file name given to frame_from_filename
  frame_name, \* names: the frame name frame_from_filename returned, or the
             \* name given to get_camera_name_from_frame_name
  camera_name, \* names: what get_camera_name_from_frame_name returned for it
  drv_pc,    \* sensor_fusion_config: the place of main in its code
  tf_frequency, \* sensor_fusion_config: the option tf-frequency, in Hz
  drv_ego_shape, \* sensor_fusion_config: ego_shape_msg of main
  name_idx,  \* sensor_fusion_config: 1 in the pass over the cameras, 2 in
             \* the pass over the lidars, 3 after both
  sensor_i,  \* sensor_fusion_config: the index i into sensors
  lookups,   \* sensor_fusion_config: the <<type, frame>> pairs looked up in
             \* the configuration
  msgtf,     \* sensor_fusion_config: msgtf.transforms
  end_time,  \* sensor_fusion_config: the end time of the reference bag
  step,      \* sensor_fusion_config: the ros::Duration step
  t_loop,    \* sensor_fusion_config: the ros::Time t of the emission loop
  bag_mode,  \* sensor_fusion_config: "unopened", "write" or "closed"
  bag        \* sensor_fusion_config: the <<topic, time>> of every message
             \* written to the output bag, in the order of writing

timeVars == <<call, in_secs, in_musecs, time, valid, stamp>>
npzVars == <<npz, report, edit, prev_ok, edits>>
poseVars == <<pose_pc, x_axis, y_axis, origin, basis, Tx>>
bboxVars == <<bbox_pc, bbox, ego_bbox_valid, ego_shape_msg>>
iterVars == <<it_pc, lidar_npz, npz_valid, msg, iters, records>>
sortVars == <<sort_pc, data_pairs, sources, unsorted>>
nameVars == <<name_pc, filename, frame_name, camera_name>>
loopVars == <<name_idx, sensor_i, lookups, msgtf>>
bagVars == <<end_time, step, t_loop, bag_mode, bag>>
driverVars == <<drv_pc, tf_frequency, drv_ego_shape, loopVars, bagVars>>
vars ==
  <<timeVars, npzVars, poseVars, bboxVars, iterVars, sortVars, nameVars,
    driverVars>>

\* what the actions of one part leave unchanged: the variables of the others
notTimeVars == <<npzVars, poseVars, bboxVars, iterVars, sortVars, nameVars,
  driverVars>>
notNpzVars == <<timeVars, poseVars, bboxVars, iterVars, sortVars, nameVars,
  driverVars>>
notPoseVars == <<timeVars, npzVars, bboxVars, iterVars, sortVars, nameVars,
  driverVars>>
notBboxVars == <<timeVars, npzVars, poseVars, iterVars, sortVars, nameVars,
  driverVars>>
notIterVars == <<timeVars, npzVars, poseVars, bboxVars, sortVars, nameVars,
  driverVars>>
notSortVars == <<timeVars, npzVars, poseVars, bboxVars, iterVars, nameVars,
  driverVars>>
notNameVars == <<timeVars, npzVars, poseVars, bboxVars, iterVars, sortVars,
  driverVars>>
notDriverVars ==
  <<timeVars, npzVars, poseVars, bboxVars, iterVars, sortVars, nameVars>>

-----------------------------------------------------------------------------
(* Bounds of the model. *)

\* inputs are taken up to MaxDelta away from each boundary value
MaxDelta == 2

\* the largest row count of an array of the data set
MaxRows == 2

\* the largest number of changes made to a valid data set
MaxEdits == 2

\* the largest magnitude of a coordinate of an axis or origin vector
MaxCoord == 2

\* the largest finite value of a double of the ego bounding box
MaxExtent == 2

\* the largest number of DataPairs in the vector that is sorted
MaxPairs == 3

-----------------------------------------------------------------------------
(* Program constants. *)

ONE_THOUSAND == 1000
ONE_MILLION == 1000000

\* 1 / EPS, for EPS = 1e-8
EPS_RECIPROCAL == 100000000

-----------------------------------------------------------------------------
(* uint64_t arithmetic on 8 bytes, most significant byte first. *)

\* a value below 2^31 as a uint64_t
U64FromNat(n) ==
  [i \in 1..8 |-> IF i <= 4 THEN 0 ELSE (n \div (256 ^ (8 - i))) % 256]

RECURSIVE U64DivRec(_, _, _, _)
U64DivRec(x, d, i, rem) ==
  IF i > 8 THEN <<>>
  ELSE LET cur == rem * 256 + x[i]
       IN  <<cur \div d>> \o U64DivRec(x, d, i + 1, cur % d)

\* x / d of two uint64_t, the divisor d below 2^23
U64Div(x, d) == U64DivRec(x, d, 1, 0)

RECURSIVE U64MulRec(_, _, _, _)
U64MulRec(x, m, i, carry) ==
  IF i < 1 THEN <<>>
  ELSE LET cur == x[i] * m + carry
       IN  U64MulRec(x, m, i - 1, cur \div 256) \o <<cur % 256>>

\* x * m of two uint64_t (modulo 2^64), the factor m below 2^23
U64Mul(x, m) == U64MulRec(x, m, 8, 0)

RECURSIVE U64SubRec(_, _, _, _)
U64SubRec(x, y, i, borrow) ==
  IF i < 1 THEN <<>>
  ELSE LET cur == x[i] - y[i] - borrow
       IN  U64SubRec(x, y, i - 1, IF cur < 0 THEN 1 ELSE 0)
             \o <<IF cur < 0 THEN cur + 256 ELSE cur>>

\* x - y of two uint64_t (modulo 2^64)
U64Sub(x, y) == U64SubRec(x, y, 8, 0)

RECURSIVE U64AddRec(_, _, _, _)
U64AddRec(x, y, i, carry) ==
  IF i < 1 THEN <<>>
  ELSE LET cur == x[i] + y[i] + carry
       IN  U64AddRec(x, y, i - 1, cur \div 256) \o <<cur % 256>>

\* x + y of two uint64_t (modulo 2^64)
U64Add(x, y) == U64AddRec(x, y, 8, 0)

\* x < y and x <= y of two uint64_t
U64Less(x, y) ==
  \E i \in 1..8 : x[i] < y[i] /\ \A j \in 1..(i - 1) : x[j] = y[j]

U64Leq(x, y) == x = y \/ U64Less(x, y)

\* static_cast<uint32_t>(x): the low 4 bytes
U32Cast(x) == SubSeq(x, 5, 8)

\* static_cast<uint64_t>(u) of a uint32_t
U64FromU32(u) == <<0, 0, 0, 0>> \o u

\* std::numeric_limits<uint32_t>::max()
UINT32_MAX == <<255, 255, 255, 255>>

-----------------------------------------------------------------------------
(* The timestamp converter. *)

valid_ros_timestamp_strict(t) ==
  LET secs == U64Div(t, ONE_MILLION)
      boundary == U64FromU32(UINT32_MAX)
  IN  U64Less(secs, boundary)

valid_ros_timestamp(t) ==
  LET secs == U64Div(t, ONE_MILLION)
      boundary == U64FromU32(UINT32_MAX)
  IN  U64Leq(secs, boundary)

\* ros::Time(sec, nsec); the library passes an nsec below 10^9 only, which
\* the constructor's normalisation leaves as it is
RosTime(sec, nsec) == [sec |-> sec, nsec |-> nsec]

a2d2_timestamp_to_ros_time_mu(t) ==
  LET truncated_secs == U64Div(t, ONE_MILLION)
      mu_secs == U64Sub(t, U64Mul(truncated_secs, ONE_MILLION))
  IN  RosTime(U32Cast(truncated_secs), U32Cast(mu_secs))

\* the nanoseconds taken from the whole of the time
a2d2_timestamp_to_ros_time_whole_nsecs(t) ==
  LET truncated_secs == U64Div(t, ONE_MILLION)
      n_secs == U64Mul(t, ONE_THOUSAND)
  IN  RosTime(U32Cast(truncated_secs), U32Cast(n_secs))

a2d2_timestamp_to_ros_time(t) ==
  LET truncated_secs == U64Div(t, ONE_MILLION)
      mu_secs == U64Sub(t, U64Mul(truncated_secs, ONE_MILLION))
      n_secs == U64Mul(mu_secs, ONE_THOUSAND)
  IN  RosTime(U32Cast(truncated_secs), U32Cast(n_secs))

-----------------------------------------------------------------------------
(* The arguments the converter is called with: 1000000*s + m for whole     *)
(* seconds s near 0, near 2^32 and near the largest s of a uint64_t, and   *)
(* microseconds m near 0 and near 999999.                                  *)

\* hi*10^12 + mid*10^6 + lo as a uint64_t
U64FromDec(hi, mid, lo) ==
  U64Add(U64Mul(U64Add(U64Mul(U64FromNat(hi), ONE_MILLION), U64FromNat(mid)),
                ONE_MILLION),
         U64FromNat(lo))

U64Max == [i \in 1..8 |-> 255]

\* 2^64 - 1 = 18446744 073709 551615 in groups of six decimal digits
U64MaxDec == <<18446744, 73709, 551615>>

\* the largest s with 1000000*s <= 2^64 - 1, and the microseconds left there
MaxSecs == U64FromDec(0, U64MaxDec[1], U64MaxDec[2])
MaxSecsMusecs == U64MaxDec[3]

\* 4294967295999999 and 4294967296000000 microseconds
LastRepresentable == U64FromDec(4294, 967295, 999999)
FirstUnrepresentable == U64FromDec(4294, 967296, 0)

Deltas == 0..MaxDelta

SecsInputs ==
  {U64FromNat(k) : k \in Deltas}
    \cup {U64Sub(U64FromU32(UINT32_MAX), U64FromNat(k)) : k \in Deltas}
    \cup {U64Add(U64FromU32(UINT32_MAX), U64FromNat(k + 1)) : k \in Deltas}
    \cup {U64Sub(MaxSecs, U64FromNat(k)) : k \in Deltas}

MusecsInputs ==
  Deltas \cup {ONE_MILLION - 1 - k : k \in Deltas}
    \cup {MaxSecsMusecs - k : k \in Deltas} \cup {MaxSecsMusecs + 1}

\* 1000000*s + m fits a uint64_t
FitsU64(s, m) == U64Less(s, MaxSecs) \/ (s = MaxSecs /\ m <= MaxSecsMusecs)

Microseconds(s, m) == U64Add(U64Mul(s, ONE_MILLION), U64FromNat(m))

-----------------------------------------------------------------------------
(* The state machine of the converter. *)

NoStamp == [sec |-> <<>>, nsec |-> <<>>]

\* a ros::Time or ros::Duration that has not been assigned
NoTime == [sec |-> 0, nsec |-> 0]

PoseIdle ==
  /\ pose_pc = "idle"
  /\ x_axis = <<>>
  /\ y_axis = <<>>
  /\ origin = <<>>
  /\ basis = <<>>
  /\ Tx = <<>>

NpzIdle ==
  /\ npz = <<>>
  /\ report = <<>>
  /\ edit = <<>>
  /\ prev_ok = FALSE
  /\ edits = 0

BboxIdle ==
  /\ bbox_pc = "idle"
  /\ bbox = <<>>
  /\ ego_bbox_valid = FALSE
  /\ ego_shape_msg = <<>>

IterIdle ==
  /\ it_pc = "idle"
  /\ lidar_npz = <<>>
  /\ npz_valid = "unverified"
  /\ msg = <<>>
  /\ iters = <<>>
  /\ records = <<>>

SortIdle ==
  /\ sort_pc = "building"
  /\ data_pairs = <<>>
  /\ sources = <<>>
  /\ unsorted = <<>>

NameIdle ==
  /\ name_pc = "idle"
  /\ filename = <<>>
  /\ frame_name = ""
  /\ camera_name = ""

DriverIdle ==
  /\ drv_pc = "main"
  /\ tf_frequency = 0
  /\ drv_ego_shape = <<>>
  /\ name_idx = 1
  /\ sensor_i = 0
  /\ lookups = {}
  /\ msgtf = <<>>
  /\ end_time = NoTime
  /\ step = NoTime
  /\ t_loop = NoTime
  /\ bag_mode = "unopened"
  /\ bag = <<>>

\* no function of the library has been called yet
Init ==
  /\ DriverIdle
  /\ NpzIdle
  /\ PoseIdle
  /\ BboxIdle
  /\ IterIdle
  /\ SortIdle
  /\ NameIdle
  /\ call = "none"
  /\ in_secs = U64FromNat(0)
  /\ in_musecs = 0
  /\ time = U64FromNat(0)
  /\ valid = FALSE
  /\ stamp = NoStamp

CallValidRosTimestamp ==
  \E s \in SecsInputs, m \in MusecsInputs :
    /\ FitsU64(s, m)
    /\ call' = "valid_ros_timestamp"
    /\ in_secs' = s
    /\ in_musecs' = m
    /\ time' = Microseconds(s, m)
    /\ valid' = valid_ros_timestamp(Microseconds(s, m))
    /\ stamp' = NoStamp
    /\ UNCHANGED notTimeVars

CallTimestampToRosTime ==
  \E s \in SecsInputs, m \in MusecsInputs :
    /\ FitsU64(s, m)
    /\ call' = "a2d2_timestamp_to_ros_time"
    /\ in_secs' = s
    /\ in_musecs' = m
    /\ time' = Microseconds(s, m)
    /\ stamp' = a2d2_timestamp_to_ros_time(Microseconds(s, m))
    /\ valid' = FALSE
    /\ UNCHANGED notTimeVars

NextTime == CallValidRosTimestamp \/ CallTimestampToRosTime

SpecTime == Init /\ [][NextTime]_vars

-----------------------------------------------------------------------------
(* The npz data set: a std::map from field name to cnpy::NpyArray. An      *)
(* array is its shape and its values, as many as the product of the shape. *)
(* A 64-bit integer value is its 8 bytes; a floating-point value is a      *)
(* small integer.                                                          *)

\* npz::Fields::get_fields()
get_fields ==
  << "pcloud_points",           "pcloud_attr.azimuth",
     "pcloud_attr.boundary",    "pcloud_attr.col",
     "pcloud_attr.depth",       "pcloud_attr.distance",
     "pcloud_attr.lidar_id",    "pcloud_attr.rectime",
     "pcloud_attr.reflectance", "pcloud_attr.row",
     "pcloud_attr.timestamp",   "pcloud_attr.valid" >>

\* the positions npz::Fields::*_IDX of the fields in get_fields (from 1)
POINTS_IDX == 1
COL_IDX == 4
DEPTH_IDX == 5
DISTANCE_IDX == 6
ID_IDX == 7
RECTIME_IDX == 8
ROW_IDX == 10
TIMESTAMP_IDX == 11

\* the positions of the row and column counts in a shape (from 1)
ROW_SHAPE_IDX == 1
COL_SHAPE_IDX == 2

\* a field name that is not in the schema
ExtraField == "pcloud_attr.extra"

\* the order in which std::map<std::string, ...> iterates: by key
KeyOrder ==
  << "pcloud_attr.azimuth",   "pcloud_attr.boundary",    "pcloud_attr.col",
     "pcloud_attr.depth",     "pcloud_attr.distance",    "pcloud_attr.extra",
     "pcloud_attr.lidar_id",  "pcloud_attr.rectime",     "pcloud_attr.reflectance",
     "pcloud_attr.row",       "pcloud_attr.timestamp",   "pcloud_attr.valid",
     "pcloud_points" >>

\* the keys of the map m in iteration order
Keys(m) == SelectSeq(KeyOrder, LAMBDA k : k \in DOMAIN m)

FieldSet == {get_fields[i] : i \in DOMAIN get_fields}

Int64Fields ==
  {get_fields[TIMESTAMP_IDX], get_fields[RECTIME_IDX], get_fields[ID_IDX]}

PointFields ==
  {get_fields[COL_IDX], get_fields[DEPTH_IDX], get_fields[DISTANCE_IDX],
   get_fields[ROW_IDX]}

\* int64_t values: two's complement, the sign in the first byte
I64Zero == U64FromNat(0)
I64MinusOne == [i \in 1..8 |-> 255]
I64IsNegative(v) == v[1] >= 128

\* all_non_negative<int64_t>(field): every value, read as int64_t, is >= 0
all_non_negative_int64(field) ==
  \A i \in DOMAIN field.data : ~I64IsNegative(field.data[i])

\* all_non_negative<npz::ReadTypes::Point>(field): every value is >= 0
all_non_negative_point(field) ==
  \A i \in DOMAIN field.data : field.data[i] >= 0

\* what verify_npz_structure returns (ok) and writes to the log with X_ERROR:
\* the check that failed, the field it names and the number it prints
Report(kind, field, value) ==
  [ok |-> kind = "ok", kind |-> kind, field |-> field, value |-> value]

Passed == Report("ok", "", <<>>)

\* the timestamp loop stopping one element early
RECURSIVE TimestampLoop_short(_, _, _)
TimestampLoop_short(field_name, field_values, i) ==
  IF i > field_values.shape[ROW_SHAPE_IDX] - 1 THEN Passed
  ELSE LET t == field_values.data[i]
       IN  IF ~valid_ros_timestamp(t)
           THEN Report("timestamp_range", field_name, t)
           ELSE TimestampLoop_short(field_name, field_values, i + 1)

\* the timestamp loop of verify_npz_structure from element i on
RECURSIVE TimestampLoop(_, _, _)
TimestampLoop(field_name, field_values, i) ==
  IF i > field_values.shape[ROW_SHAPE_IDX] THEN Passed
  ELSE LET t == field_values.data[i]    \* static_cast<uint64_t>: same bytes
       IN  IF ~valid_ros_timestamp(t)
           THEN Report("timestamp_range", field_name, t)
           ELSE TimestampLoop(field_name, field_values, i + 1)

\* the sign checks with the row and col fields checked as well
SignError_row_col(field_name, field_values) ==
  \/ /\ field_name \in {get_fields[TIMESTAMP_IDX], get_fields[RECTIME_IDX],
                        get_fields[ID_IDX]}
     /\ ~all_non_negative_int64(field_values)
  \/ /\ field_name \in {get_fields[ROW_IDX], get_fields[COL_IDX],
                        get_fields[DEPTH_IDX], get_fields[DISTANCE_IDX]}
     /\ ~all_non_negative_point(field_values)

\* the sign checks with the depth field left out
SignError_no_depth(field_name, field_values) ==
  \/ /\ field_name \in {get_fields[TIMESTAMP_IDX], get_fields[RECTIME_IDX],
                        get_fields[ID_IDX]}
     /\ ~all_non_negative_int64(field_values)
  \/ /\ field_name = get_fields[DISTANCE_IDX]
     /\ ~all_non_negative_point(field_values)

\* the sign checks with the timestamp field left out
SignError_no_timestamp(field_name, field_values) ==
  \/ /\ field_name \in {get_fields[RECTIME_IDX], get_fields[ID_IDX]}
     /\ ~all_non_negative_int64(field_values)
  \/ /\ field_name \in {get_fields[DEPTH_IDX], get_fields[DISTANCE_IDX]}
     /\ ~all_non_negative_point(field_values)

\* the sign checks of one field in the loop of verify_npz_structure
SignError(field_name, field_values) ==
  LET is_timestamp == field_name = get_fields[TIMESTAMP_IDX]
      is_rectime == field_name = get_fields[RECTIME_IDX]
      is_lidar_id == field_name = get_fields[ID_IDX]
      is_depth == field_name = get_fields[DEPTH_IDX]
      is_distance == field_name = get_fields[DISTANCE_IDX]
  IN  \/ /\ is_timestamp \/ is_rectime \/ is_lidar_id
         /\ ~all_non_negative_int64(field_values)
      \/ /\ is_depth \/ is_distance
         /\ ~all_non_negative_point(field_values)

\* the body of the loop with the row count compared before the dimensions
VerifyField_rows_first(field_name, field_values, points_shape) ==
  LET shape == field_values.shape
  IN  IF field_name = get_fields[POINTS_IDX] THEN Passed
      ELSE IF shape # <<>> /\ shape[ROW_SHAPE_IDX] # points_shape[ROW_SHAPE_IDX]
      THEN Report("attr_rows", field_name, <<shape[ROW_SHAPE_IDX]>>)
      ELSE IF Len(shape) # 1
      THEN Report("attr_dims", field_name, <<Len(shape)>>)
      ELSE IF SignError(field_name, field_values)
      THEN Report("sign", field_name, <<>>)
      ELSE IF field_name = get_fields[TIMESTAMP_IDX]
      THEN TimestampLoop(field_name, field_values, 1)
      ELSE Passed

\* the body of the loop over the fields of verify_npz_structure
VerifyField(field_name, field_values, points_shape) ==
  LET shape == field_values.shape
  IN  IF field_name = get_fields[POINTS_IDX] THEN Passed
      ELSE IF Len(shape) # 1
      THEN Report("attr_dims", field_name, <<Len(shape)>>)
      ELSE IF shape[ROW_SHAPE_IDX] # points_shape[ROW_SHAPE_IDX]
      THEN Report("attr_rows", field_name, <<shape[ROW_SHAPE_IDX]>>)
      ELSE IF SignError(field_name, field_values)
      THEN Report("sign", field_name, <<>>)
      ELSE IF field_name = get_fields[TIMESTAMP_IDX]
      THEN TimestampLoop(field_name, field_values, 1)
      ELSE Passed

\* the loop over the fields of verify_npz_structure from the k-th key on
RECURSIVE VerifyLoop(_, _, _, _)
VerifyLoop(m, keys, k, points_shape) ==
  IF k > Len(keys) THEN Passed
  ELSE LET r == VerifyField(keys[k], m[keys[k]], points_shape)
       IN  IF ~r.ok THEN r ELSE VerifyLoop(m, keys, k + 1, points_shape)

\* the presence loop of verify_npz_structure from the i-th schema field on
RECURSIVE FirstMissing(_, _)
FirstMissing(m, i) ==
  IF i > Len(get_fields) THEN ""
  ELSE IF get_fields[i] \notin DOMAIN m THEN get_fields[i]
  ELSE FirstMissing(m, i + 1)

\* verify_npz_structure without its check that all required fields are
\* there; npz.at() throws when the points field is missing
verify_npz_structure_unguarded(m) ==
  LET points_field_name == get_fields[POINTS_IDX]
  IN  IF points_field_name \notin DOMAIN m
      THEN Report("out_of_range", points_field_name, <<>>)
      ELSE LET points_shape == m[points_field_name].shape
           IN  IF Len(points_shape) # 2
               THEN Report("points_dims", points_field_name,
                           <<Len(points_shape)>>)
               ELSE IF points_shape[COL_SHAPE_IDX] # 3
               THEN Report("points_cols", points_field_name,
                           <<points_shape[COL_SHAPE_IDX]>>)
               ELSE VerifyLoop(m, Keys(m), 1, points_shape)

verify_npz_structure(m) ==
  IF Cardinality(DOMAIN m) # Len(get_fields)
  THEN Report("field_count", "", <<Cardinality(DOMAIN m)>>)
  ELSE IF FirstMissing(m, 1) # ""
  THEN Report("missing_field", FirstMissing(m, 1), <<>>)
  ELSE LET points_field_name == get_fields[POINTS_IDX]
           points_shape == m[points_field_name].shape
       IN  IF Len(points_shape) # 2
           THEN Report("points_dims", points_field_name, <<Len(points_shape)>>)
           ELSE IF points_shape[COL_SHAPE_IDX] # 3
           THEN Report("points_cols", points_field_name,
                       <<points_shape[COL_SHAPE_IDX]>>)
           ELSE VerifyLoop(m, Keys(m), 1, points_shape)

-----------------------------------------------------------------------------
(* The data sets the validator is given: a data set of n points that       *)
(* follows the schema, with up to MaxEdits changes: a field removed or     *)
(* added, an array given another shape, a value of an array replaced.      *)

RECURSIVE Product(_)
Product(shape) ==
  IF shape = <<>> THEN 1 ELSE Head(shape) * Product(Tail(shape))

ZeroOf(f) == IF f \in Int64Fields THEN I64Zero ELSE 0

\* an array of field f with the given shape, all values zero
NpyArray(f, shape) ==
  [shape |-> shape, data |-> [i \in 1..Product(shape) |-> ZeroOf(f)]]

SchemaShape(f, n) == IF f = get_fields[POINTS_IDX] THEN <<n, 3>> ELSE <<n>>

SchemaDataset(n) == [f \in FieldSet |-> NpyArray(f, SchemaShape(f, n))]

\* the values a change writes into an array of field f: a negative value,
\* and for the times the first unrepresentable and the last representable
ValueInputs(f) ==
  IF f = get_fields[TIMESTAMP_IDX]
  THEN {I64MinusOne, FirstUnrepresentable, LastRepresentable}
  ELSE IF f = get_fields[RECTIME_IDX] THEN {I64MinusOne, FirstUnrepresentable}
  ELSE IF f = get_fields[ID_IDX] THEN {I64MinusOne}
  ELSE {-1}

\* the elements a change writes to: the first and the last
IndexInputs(a) == {i \in DOMAIN a.data : i = 1 \/ i = Len(a.data)}

\* the shapes a change gives an array that now has shape sh: the same rows
\* with one, two or three columns or as a vector, or one more row
ShapeInputs(sh) ==
  LET rows == IF sh = <<>> THEN 0 ELSE sh[1]
  IN  ({<<rows>>, <<rows, 2>>, <<rows, 3>>}
         \cup (IF rows < MaxRows /\ sh # <<>>
               THEN {[sh EXCEPT ![1] = rows + 1]} ELSE {})) \ {sh}

\* the fields whose shape is changed: the points, the first and the last
\* attribute in key order, and the timestamp
ReshapedFields ==
  {get_fields[POINTS_IDX], "pcloud_attr.azimuth", get_fields[TIMESTAMP_IDX],
   "pcloud_attr.valid"}

\* the row count of the points of the data set m, 0 without points
PointRows(m) ==
  IF get_fields[POINTS_IDX] \in DOMAIN m
       /\ m[get_fields[POINTS_IDX]].shape # <<>>
  THEN m[get_fields[POINTS_IDX]].shape[1]
  ELSE 0

Without(m, f) == [g \in (DOMAIN m) \ {f} |-> m[g]]
With(m, f, a) == [g \in (DOMAIN m) \cup {f} |-> IF g = f THEN a ELSE m[g]]

\* edit: no change yet, or the change made to a data set that validated,
\* or OtherEdit for a change made to a data set that did not
NoEdit == [kind |-> "none", field |-> "", value |-> <<>>]
OtherEdit == [kind |-> "other", field |-> "", value |-> <<>>]

Validate(m, e) ==
  /\ npz' = m
  /\ report' = verify_npz_structure(m)
  /\ edit' = IF e.kind = "none" \/ report.ok THEN e ELSE OtherEdit
  /\ prev_ok' = (e.kind # "none" /\ report.ok)
  /\ edits' = IF e.kind = "none" THEN 0 ELSE edits + 1
  /\ UNCHANGED notNpzVars

\* a data set that follows the schema is validated
ValidateSchemaDataset ==
  /\ npz = <<>>
  /\ \E n \in 0..MaxRows : Validate(SchemaDataset(n), NoEdit)

\* the data set is validated again with one field removed
ValidateWithoutField ==
  /\ npz # <<>> /\ edits < MaxEdits
  /\ \E f \in DOMAIN npz :
       Validate(Without(npz, f), [kind |-> "remove", field |-> f, value |-> <<>>])

\* the data set is validated again with one more field
ValidateWithExtraField ==
  /\ npz # <<>> /\ edits < MaxEdits
  /\ \E f \in (FieldSet \cup {ExtraField}) \ DOMAIN npz :
       Validate(With(npz, f, NpyArray(f, SchemaShape(f, PointRows(npz)))),
                [kind |-> "add", field |-> f, value |-> <<>>])

\* the data set is validated again with one array given another shape
ValidateReshaped ==
  /\ npz # <<>> /\ edits < MaxEdits
  /\ \E f \in ReshapedFields \cap DOMAIN npz :
       \E sh \in ShapeInputs(npz[f].shape) :
         Validate(With(npz, f, NpyArray(f, sh)),
                  [kind |-> "reshape", field |-> f, value |-> sh])

\* the data set is validated again with one value of an array replaced
ValidateWithValue ==
  /\ npz # <<>> /\ edits < MaxEdits
  /\ \E f \in (Int64Fields \cup PointFields) \cap DOMAIN npz :
       \E i \in IndexInputs(npz[f]), v \in ValueInputs(f) :
         /\ npz[f].data[i] # v
         /\ Validate(With(npz, f, [npz[f] EXCEPT !.data[i] = v]),
                     [kind |-> "set", field |-> f, value |-> <<v>>])

NextNpz ==
  \/ ValidateSchemaDataset
  \/ ValidateWithoutField
  \/ ValidateWithExtraField
  \/ ValidateReshaped
  \/ ValidateWithValue

SpecNpz == Init /\ [][NextNpz]_vars

-----------------------------------------------------------------------------
(* The geometry builder. An Eigen::Vector3d is its three coordinates,      *)
(* integers here, and whether its norm is finite (it is not when a         *)
(* coordinate is infinite or NaN). A column of a basis is a vector v and   *)
(* the square n2 of the length it was divided by: the column v / sqrt(n2). *)

Vector3d(a, b, c) == [v |-> <<a, b, c>>, finite |-> TRUE]
NonFiniteVector == [v |-> <<0, 0, 0>>, finite |-> FALSE]

Dot(a, b) == a[1] * b[1] + a[2] * b[2] + a[3] * b[3]

\* a.cross(b)
Cross(a, b) ==
  << a[2] * b[3] - a[3] * b[2],
     a[3] * b[1] - a[1] * b[3],
     a[1] * b[2] - a[2] * b[1] >>

SquaredNorm(a) == Dot(a, a)

\* the largest integer n2 with sqrt(n2) <= 1/eps_reciprocal: the square of
\* epsilon in whole units
SquaredEpsilon(eps_reciprocal) == (1 \div eps_reciprocal) \div eps_reciprocal

\* a.normalized(): a / a.norm(), and a itself when its norm is zero (Eigen
\* from 3.3 on; before, the division by zero gives NaN coordinates, which
\* are not zero and not of unit length either)
Normalized(a) ==
  IF SquaredNorm(a) > 0 THEN [v |-> a, n2 |-> SquaredNorm(a)]
  ELSE [v |-> a, n2 |-> 1]

\* a.isApprox(b, epsilon): |a - b|^2 <= epsilon^2 * min(|a|^2, |b|^2)
IsApprox(a, b, eps_reciprocal) ==
  LET d == <<a[1] - b[1], a[2] - b[2], a[3] - b[3]>>
      m == IF SquaredNorm(a) < SquaredNorm(b) THEN SquaredNorm(a)
           ELSE SquaredNorm(b)
  IN  SquaredNorm(d) <= (m \div eps_reciprocal) \div eps_reciprocal

vector_is_valid(vec) == vec.finite

axis_is_valid(axis, eps_reciprocal) ==
  /\ vector_is_valid(axis)
  /\ SquaredNorm(axis.v) > SquaredEpsilon(eps_reciprocal)

\* with an axis that is not finite the comparison of the axes has no effect
\* on the result
axes_are_valid(axis1, axis2, eps_reciprocal) ==
  LET axis1_valid == axis_is_valid(axis1, eps_reciprocal)
      axis2_valid == axis_is_valid(axis2, eps_reciprocal)
      axes_not_equal == ~IsApprox(axis1.v, axis2.v, eps_reciprocal)
  IN  axis1_valid /\ axis2_valid /\ axes_not_equal

\* basis.setZero()
ZeroBasis == [c \in 1..3 |-> [v |-> <<0, 0, 0>>, n2 |-> 1]]

get_orthonormal_basis(X, Y, eps_reciprocal) ==
  IF ~axes_are_valid(X, Y, eps_reciprocal) THEN ZeroBasis
  ELSE LET Z == Cross(X.v, Y.v)
           Y_ortho == Cross(Z, X.v)
       IN  << Normalized(X.v), Normalized(Y_ortho), Normalized(Z) >>

\* basis.isZero(0.0): every coefficient is 0
IsZero(b) == \A c \in 1..3 : b[c].v = <<0, 0, 0>>

\* Eigen::Matrix3d::Identity(), the linear part of a Translation3d
IdentityBasis ==
  << [v |-> <<1, 0, 0>>, n2 |-> 1],
     [v |-> <<0, 1, 0>>, n2 |-> 1],
     [v |-> <<0, 0, 1>>, n2 |-> 1] >>

\* M * p for a matrix M whose columns are integer vectors (n2 = 1)
MatVec(M, p) ==
  [r \in 1..3 |-> p[1] * M[1].v[r] + p[2] * M[2].v[r] + p[3] * M[3].v[r]]

\* a + b of two Vector3d
VecAdd(a, b) ==
  [v |-> [r \in 1..3 |-> a.v[r] + b.v[r]], finite |-> a.finite /\ b.finite]

\* Eigen::Translation3d(o) and a Matrix3d R as affine transforms
Translation3d(o) == [linear |-> IdentityBasis, translation |-> o]
Linear3d(R) == [linear |-> R, translation |-> Vector3d(0, 0, 0)]

\* A * B of two affine transforms, the linear part of A of integer columns:
\* the linear part A.linear * B.linear, column by column, and the
\* translation A.linear * B.translation + A.translation
AffineTimes(A, B) ==
  [linear |->
     [c \in 1..3 |-> [v |-> MatVec(A.linear, B.linear[c].v),
                      n2 |-> B.linear[c].n2]],
   translation |->
     VecAdd([v |-> MatVec(A.linear, B.translation.v),
             finite |-> B.translation.finite],
            A.translation)]

\* the translation left out of the product
Tx_global_sensor_linear_only(b, o) == Linear3d(b)

\* T * R: the rotation R = basis, then the translation T by origin
Tx_global_sensor(b, o) ==
  LET R == b
      T == Translation3d(o)
  IN  AffineTimes(T, Linear3d(R))

-----------------------------------------------------------------------------
(* The driver's computation of the pose of one sensor:                     *)
(* json_axes_to_eigen_basis, json_origin_to_eigen_vector,                  *)
(* VERIFY_BASIS_ORIGIN and Tx_global_sensor.                               *)

Coords == (0 - MaxCoord)..MaxCoord

AxisInputs ==
  {Vector3d(a, b, c) : a \in Coords, b \in Coords, c \in Coords}
    \cup {NonFiniteVector}

OriginInputs == {Vector3d(0, 0, 0), Vector3d(1, 0, 0 - 1), NonFiniteVector}

\* the configuration is read and json_axes_to_eigen_basis builds the basis
JsonAxesToEigenBasis ==
  /\ pose_pc = "idle"
  /\ \E X \in AxisInputs, Y \in AxisInputs :
       /\ x_axis' = X
       /\ y_axis' = Y
       /\ basis' = get_orthonormal_basis(X, Y, EPS_RECIPROCAL)
  /\ pose_pc' = "basis"
  /\ UNCHANGED <<origin, Tx, notPoseVars>>

JsonOriginToEigenVector ==
  /\ pose_pc = "basis"
  /\ \E o \in OriginInputs : origin' = o
  /\ pose_pc' = "origin"
  /\ UNCHANGED <<x_axis, y_axis, basis, Tx, notPoseVars>>

\* VERIFY_BASIS_ORIGIN: return EXIT_FAILURE for an origin that is not valid
\* or a basis that is zero
VerifyBasisOrigin ==
  /\ pose_pc = "origin"
  /\ pose_pc' = IF ~vector_is_valid(origin) THEN "exit_failure"
                ELSE IF IsZero(basis) THEN "exit_failure"
                ELSE "verified"
  /\ UNCHANGED <<x_axis, y_axis, origin, basis, Tx, notPoseVars>>

ComposeTransform ==
  /\ pose_pc = "verified"
  /\ Tx' = Tx_global_sensor(basis, origin)
  /\ pose_pc' = "transform"
  /\ UNCHANGED <<x_axis, y_axis, origin, basis, notPoseVars>>

NextPose ==
  \/ JsonAxesToEigenBasis
  \/ JsonOriginToEigenVector
  \/ VerifyBasisOrigin
  \/ ComposeTransform

SpecPose == Init /\ [][NextPose]_vars

-----------------------------------------------------------------------------
(* The ego bounding box. A double is a whole number of magnitude up to     *)
(* MaxExtent, the largest finite value, or an infinity (v = 1 or v = -1),  *)
(* or a NaN. A difference beyond MaxExtent overflows to an infinity.       *)

Double(n) == [k |-> "num", v |-> n]
Infinity(sign) == [k |-> "inf", v |-> sign]
NaN == [k |-> "nan", v |-> 0]

\* std::isfinite(d)
isfinite(d) == d.k = "num"

\* a < b of two doubles: false when one is a NaN
DoubleLess(a, b) ==
  LET rank(d) == IF d.k = "inf" THEN d.v * (MaxExtent + 1) ELSE d.v
  IN  a.k # "nan" /\ b.k # "nan" /\ rank(a) < rank(b)

\* a - b of two doubles
DoubleMinus(a, b) ==
  IF a.k = "nan" \/ b.k = "nan" THEN NaN
  ELSE IF a.k = "inf" /\ b.k = "inf"
  THEN IF a.v = b.v THEN NaN ELSE a
  ELSE IF a.k = "inf" THEN a
  ELSE IF b.k = "inf" THEN Infinity(0 - b.v)
  ELSE IF a.v - b.v > MaxExtent THEN Infinity(1)
  ELSE IF a.v - b.v < 0 - MaxExtent THEN Infinity(0 - 1)
  ELSE Double(a.v - b.v)

\* the comparisons not strict
verify_ego_bbox_params_not_strict(x_min, x_max, y_min, y_max, z_min, z_max) ==
  LET vals == <<x_min, x_max, y_min, y_max, z_min, z_max>>
      all_finite == \A i \in DOMAIN vals : isfinite(vals[i])
      x_ordered == ~DoubleLess(x_max, x_min)
      y_ordered == ~DoubleLess(y_max, y_min)
      z_ordered == ~DoubleLess(z_max, z_min)
      all_ordered == x_ordered /\ y_ordered /\ z_ordered
  IN  all_finite /\ all_ordered

verify_ego_bbox_params(x_min, x_max, y_min, y_max, z_min, z_max) ==
  LET vals == <<x_min, x_max, y_min, y_max, z_min, z_max>>
      all_finite == \A i \in DOMAIN vals : isfinite(vals[i])
      x_ordered == DoubleLess(x_min, x_max)
      y_ordered == DoubleLess(y_min, y_max)
      z_ordered == DoubleLess(z_min, z_max)
      all_ordered == x_ordered /\ y_ordered /\ z_ordered
  IN  all_finite /\ all_ordered

\* msg.dimensions at BOX_X, BOX_Y, BOX_Z
build_ego_shape_msg(x_min, x_max, y_min, y_max, z_min, z_max) ==
  LET side_length(min, max) == DoubleMinus(max, min)
  IN  [type |-> "BOX",
       dimensions |-> << side_length(x_min, x_max),
                         side_length(y_min, y_max),
                         side_length(z_min, z_max) >>]

DoubleInputs ==
  {Double(n) : n \in (0 - MaxExtent)..MaxExtent}
    \cup {Infinity(1), Infinity(0 - 1), NaN}

\* the driver reads the six bounds and verifies them
CallVerifyEgoBboxParams ==
  /\ bbox_pc = "idle"
  /\ \E x_min \in DoubleInputs, x_max \in DoubleInputs,
        y_min \in DoubleInputs, y_max \in DoubleInputs,
        z_min \in DoubleInputs, z_max \in DoubleInputs :
       /\ bbox' = <<x_min, x_max, y_min, y_max, z_min, z_max>>
       /\ ego_bbox_valid' =
            verify_ego_bbox_params(x_min, x_max, y_min, y_max, z_min, z_max)
  /\ bbox_pc' = "verified"
  /\ UNCHANGED <<ego_shape_msg, notBboxVars>>

\* the driver builds the shape from bounds that were found valid
CallBuildEgoShapeMsg ==
  /\ bbox_pc = "verified"
  /\ ego_bbox_valid
  /\ ego_shape_msg' = build_ego_shape_msg(bbox[1], bbox[2], bbox[3], bbox[4],
                                          bbox[5], bbox[6])
  /\ bbox_pc' = "built"
  /\ UNCHANGED <<bbox, ego_bbox_valid, notBboxVars>>

NextBbox == CallVerifyEgoBboxParams \/ CallBuildEgoShapeMsg

SpecBbox == Init /\ [][NextBbox]_vars

-----------------------------------------------------------------------------
(* The conversion of one lidar frame. The library gives build_pc2_msg,     *)
(* A2D2_PointCloudIterators with its operator++ and                        *)
(* depth_image_from_a2d2_pointcloud; the converter that reads the npz      *)
(* file, validates it and walks the points is not part of the library.     *)
(* A sensor_msgs::PointCloud2Iterator is the name of the message field it  *)
(* reads and the index of the point it is at.                              *)

\* the message fields set by setPointCloud2Fields: x, y, z and the attributes
\* of get_fields
build_pc2_msg(frame, num_points) ==
  [frame_id |-> frame,
   width |-> num_points,
   fields |-> {"x", "y", "z"} \cup (FieldSet \ {get_fields[POINTS_IDX]})]

\* the members of A2D2_PointCloudIterators in the order of their
\* initialisation
Members ==
  << "x", "y", "z", "azimuth", "boundary", "col", "depth", "distance",
     "lidar_id", "rectime", "reflectance", "row", "timestamp", "valid" >>

\* the field name the constructor gives the iterator of a member: "x", "y",
\* "z", and fields[npz::Fields::<MEMBER>_IDX], which is the name of the member
\* after "pcloud_attr."
MemberField(member) ==
  IF member \in {"x", "y", "z"} THEN member
  ELSE CHOOSE f \in FieldSet : f = "pcloud_attr." \o member

\* sensor_msgs::PointCloud2Iterator(msg, field_name): at the first point;
\* it throws for a field that the message does not have
PointCloud2Iterator(m, field_name) ==
  IF field_name \in m.fields THEN [field |-> field_name, index |-> 0]
  ELSE [field |-> "std::runtime_error", index |-> 0]

A2D2_PointCloudIterators(m) ==
  [i \in DOMAIN Members |-> PointCloud2Iterator(m, MemberField(Members[i]))]

\* operator++ that leaves the last member where it is
operator_increment_but_valid(its) ==
  [i \in DOMAIN its |->
     IF i < Len(Members) THEN [its[i] EXCEPT !.index = @ + 1] ELSE its[i]]

\* A2D2_PointCloudIterators::operator++
operator_increment(its) ==
  [i \in DOMAIN its |-> [its[i] EXCEPT !.index = @ + 1]]

\* the data sets read: those of the schema, and these with a field removed,
\* with a column too few in the points or with a negative timestamp
LidarNpzInputs ==
  LET schema == {SchemaDataset(n) : n \in 0..MaxRows}
  IN  schema
        \cup {Without(m, f) : m \in schema, f \in FieldSet}
        \cup {With(m, get_fields[POINTS_IDX],
                   NpyArray(get_fields[POINTS_IDX], <<PointRows(m), 2>>)) :
                m \in schema}
        \cup {With(m, get_fields[TIMESTAMP_IDX],
                   [m[get_fields[TIMESTAMP_IDX]] EXCEPT !.data[1] = I64MinusOne]) :
                m \in {SchemaDataset(n) : n \in 1..MaxRows}}

FrameInputs == {"lidar_front_center", "lidar_rear_left"}

\* the converter reads the npz file of a frame
ReadNpz ==
  /\ it_pc = "idle"
  /\ \E m \in LidarNpzInputs : lidar_npz' = m
  /\ it_pc' = "read"
  /\ UNCHANGED <<npz_valid, msg, iters, records, notIterVars>>

\* the converter validates the data set
VerifyNpz ==
  /\ it_pc = "read"
  /\ npz_valid = "unverified"
  /\ npz_valid' = IF verify_npz_structure(lidar_npz).ok THEN "valid"
                   ELSE "invalid"
  /\ UNCHANGED <<it_pc, lidar_npz, msg, iters, records, notIterVars>>

\* build_pc2_msg is called for as many points as the data set has; the
\* function takes the number and does not see the data set
BuildPc2Msg ==
  /\ it_pc = "read"
  /\ msg = <<>>
  /\ \E frame \in FrameInputs :
       msg' = build_pc2_msg(frame, PointRows(lidar_npz))
  /\ UNCHANGED <<it_pc, lidar_npz, npz_valid, iters, records, notIterVars>>

\* the converter constructs the iterators over the message of a data set
\* that passed validation
ConstructIterators ==
  /\ it_pc = "read"
  /\ npz_valid = "valid"
  /\ msg # <<>>
  /\ iters' = A2D2_PointCloudIterators(msg)
  /\ it_pc' = "iterating"
  /\ UNCHANGED <<lidar_npz, npz_valid, msg, records, notIterVars>>

\* the body of the converter's loop over the points: the point the
\* iterators are at is written, and the iterators advance
VisitPoint ==
  /\ it_pc = "iterating"
  /\ Len(records) < msg.width
  /\ records' = Append(records, iters)
  /\ iters' = operator_increment(iters)
  /\ UNCHANGED <<it_pc, lidar_npz, npz_valid, msg, notIterVars>>

\* the end of the converter's loop
LeaveLoop ==
  /\ it_pc = "iterating"
  /\ Len(records) >= msg.width
  /\ it_pc' = "iterated"
  /\ UNCHANGED <<lidar_npz, npz_valid, msg, iters, records, notIterVars>>

\* depth_image_from_a2d2_pointcloud(msg), up to the construction of its
\* iterators
DepthImageFromPointcloud ==
  /\ it_pc \in {"read", "iterated"}
  /\ msg # <<>>
  /\ iters' = A2D2_PointCloudIterators(msg)
  /\ it_pc' = "depth_image"
  /\ UNCHANGED <<lidar_npz, npz_valid, msg, records, notIterVars>>

\* depth_image_from_a2d2_pointcloud returns an empty sensor_msgs::ImagePtr
DepthImageReturn ==
  /\ it_pc = "depth_image"
  /\ iters' = <<>>
  /\ it_pc' = "returned"
  /\ UNCHANGED <<lidar_npz, npz_valid, msg, records, notIterVars>>

NextIter ==
  \/ ReadNpz
  \/ VerifyNpz
  \/ BuildPc2Msg
  \/ ConstructIterators
  \/ VisitPoint
  \/ LeaveLoop
  \/ DepthImageFromPointcloud
  \/ DepthImageReturn

SpecIter == Init /\ [][NextIter]_vars

-----------------------------------------------------------------------------
(* The timestamped values of a scalar signal: DataPair::build, and         *)
(* std::sort of a vector of DataPairs by DataPairTimeComparator. std::sort *)
(* gives some arrangement of the vector in which no element is before one  *)
(* that the comparator puts before it.                                     *)

\* x < y of two uint32_t
U32Less(x, y) ==
  \E i \in 1..4 : x[i] < y[i] /\ \A j \in 1..(i - 1) : x[j] = y[j]

\* ros::Time operator<: by seconds, then by nanoseconds
TimeLess(a, b) ==
  \/ U32Less(a.sec, b.sec)
  \/ a.sec = b.sec /\ U32Less(a.nsec, b.nsec)

DataPair(header, value) == [header |-> header, value |-> value]

\* DataPair::build
build(value, t, frame_id) ==
  LET header == [seq |-> 0, frame_id |-> frame_id,
                 stamp |-> a2d2_timestamp_to_ros_time(t)]
      val == [data |-> value]
  IN  DataPair(header, val)

\* the comparator taking the frame for equal stamps
DataPairTimeComparator_then_frame(lhs, rhs) ==
  \/ TimeLess(lhs.header.stamp, rhs.header.stamp)
  \/ /\ lhs.header.stamp = rhs.header.stamp
     /\ lhs.header.frame_id = "a" /\ rhs.header.frame_id = "b"

\* DataPairTimeComparator::operator()
DataPairTimeComparator(lhs, rhs) ==
  TimeLess(lhs.header.stamp, rhs.header.stamp)

\* the microseconds the values are built from: 999999, 1000000, 1000001,
\* 3000000, 5000000, 4294967295999999 and 4294967296000000
SignalTimeInputs ==
  {U64FromNat(ONE_MILLION - 1), U64FromNat(ONE_MILLION),
   U64FromNat(ONE_MILLION + 1), U64FromNat(3 * ONE_MILLION),
   U64FromNat(5 * ONE_MILLION), LastRepresentable, FirstUnrepresentable}

\* the time, the frame identifier and the value of a DataPair: every time
\* with one frame and value, 1000000 and 5000000 with another as well
SignalInputs ==
  {<<t, "a", 0>> : t \in SignalTimeInputs}
    \cup {<<U64FromNat(ONE_MILLION), "b", 1>>,
          <<U64FromNat(5 * ONE_MILLION), "b", 1>>}

\* the arrangements of 1..n
Arrangements(n) ==
  {p \in [1..n -> 1..n] : \A i \in 1..n, j \in 1..n : p[i] = p[j] => i = j}

\* v is in the order of the comparator
IsSorted(v) ==
  \A i \in DOMAIN v, j \in DOMAIN v :
    i < j => ~DataPairTimeComparator(v[j], v[i])

\* a DataPair is built and put at the end of the vector
BuildDataPair ==
  /\ sort_pc = "building"
  /\ Len(data_pairs) < MaxPairs
  /\ \E in \in SignalInputs :
       /\ data_pairs' = Append(data_pairs, build(in[3], in[1], in[2]))
       /\ sources' = Append(sources, in[1])
  /\ UNCHANGED <<sort_pc, unsorted, notSortVars>>

\* std::sort(data_pairs.begin(), data_pairs.end(), DataPairTimeComparator())
SortDataPairs ==
  /\ sort_pc = "building"
  /\ \E p \in Arrangements(Len(data_pairs)) :
       /\ IsSorted([i \in DOMAIN data_pairs |-> data_pairs[p[i]]])
       /\ data_pairs' = [i \in DOMAIN data_pairs |-> data_pairs[p[i]]]
       /\ sources' = [i \in DOMAIN sources |-> sources[p[i]]]
  /\ unsorted' = [data_pairs |-> data_pairs, sources |-> sources]
  /\ sort_pc' = "sorted"
  /\ UNCHANGED notSortVars

NextSort == BuildDataPair \/ SortDataPairs

SpecSort == Init /\ [][NextSort]_vars

-----------------------------------------------------------------------------
(* The sensor tables and the look-ups in them. A file name is the sequence *)
(* of its parts; a frame name is found in it when it is one of the parts.  *)

\* sensors::Frames::get_files()
get_files ==
  << "frontcenter", "frontleft",  "frontright", "sideleft",
     "sideright",   "rearcenter", "rearleft",   "rearright" >>

\* sensors::Frames::get_sensors()
get_sensors ==
  << "front_center", "front_left",  "front_right", "side_left",
     "side_right",   "rear_center", "rear_left",   "rear_right" >>

frame_from_filename(file) ==
  LET frames == get_files
      filename_has_frame(f) == \E k \in DOMAIN file : file[k] = f
      found == {i \in DOMAIN frames : filename_has_frame(frames[i])}
      num_found == Cardinality(found)
  IN  IF num_found # 1 THEN ""
      ELSE LET idx == CHOOSE i \in found : \A j \in found : i <= j
           IN  frames[idx]

\* the loop of get_camera_name_from_frame_name from index i up to last
RECURSIVE CameraNameLoop(_, _, _)
CameraNameLoop(name, i, last) ==
  LET cameras == get_sensors
      frames == get_files
  IN  IF i > last THEN ""
      ELSE IF name = frames[i] THEN cameras[i]
      ELSE CameraNameLoop(name, i + 1, last)

\* the loop ending one entry early
get_camera_name_from_frame_name_but_last(name) ==
  CameraNameLoop(name, 1, Len(get_files) - 1)

get_camera_name_from_frame_name(name) ==
  CameraNameLoop(name, 1, Len(get_files))

\* the parts of a file name: the on-disk names, and parts that are none
PartInputs ==
  {get_files[i] : i \in DOMAIN get_files}
    \cup {"lidar", "front_center", "FRONTCENTER"}

FilenameInputs == {<<a, b>> : a \in PartInputs, b \in PartInputs}

\* the names looked up without a file name
NameInputs == PartInputs \cup {get_sensors[i] : i \in DOMAIN get_sensors}

CallFrameFromFilename ==
  /\ name_pc = "idle"
  /\ \E file \in FilenameInputs :
       /\ filename' = file
       /\ frame_name' = frame_from_filename(file)
  /\ name_pc' = "frame"
  /\ UNCHANGED <<camera_name, notNameVars>>

\* the camera name of the frame of a file name, or of a name given
CallGetCameraNameFromFrameName ==
  /\ name_pc \in {"idle", "frame"}
  /\ \E name \in (IF name_pc = "frame" THEN {frame_name} ELSE NameInputs) :
       /\ frame_name' = name
       /\ camera_name' = get_camera_name_from_frame_name(name)
  /\ name_pc' = "camera"
  /\ UNCHANGED <<filename, notNameVars>>

NextNames == CallFrameFromFilename \/ CallGetCameraNameFromFrameName

SpecNames == Init /\ [][NextNames]_vars

-----------------------------------------------------------------------------
(* sensor_fusion_config: main reads the configuration of the vehicle,      *)
(* builds the shape of the vehicle and one transform for every sensor, and *)
(* writes them to a bag at a fixed frequency over the time span of a       *)
(* reference bag. A ros::Time and a ros::Duration are whole seconds and    *)
(* nanoseconds below one second.                                           *)

\* the largest number of iterations of the emission loop that are followed
MaxBatches == 3

\* sensors::Names
CAMERAS == "cameras"
LIDARS == "lidars"

\* the two names joined the other way round
tf_frame_name_frame_first(sensor_type, sensor_frame) ==
  sensor_frame \o "_" \o sensor_type

tf_frame_name(sensor_type, sensor_frame) ==
  sensor_type \o "_" \o sensor_frame

\* sensors::Frames: the index of a position in get_sensors(), from 0
SIDE_LEFT_IDX == 3
SIDE_RIGHT_IDX == 4
REAR_CENTER_IDX == 5
REAR_LEFT_IDX == 6
REAR_RIGHT_IDX == 7

\* the nanoseconds of one second
NSecPerSec == ONE_THOUSAND * ONE_MILLION

\* boost::math::round(n / d) for n >= 0 and d > 0: to the nearest whole
\* number, a half away from zero
RoundDiv(n, d) ==
  IF n % d >= d - (n % d) THEN (n \div d) + 1 ELSE n \div d

\* ros::Duration(1.0 / f), f > 0 a whole number of Hz: fromSec takes
\* sec = floor(1/f) and nsec = round((1/f - sec) * 1e9) and carries a
\* whole second of nsec over to sec. (Up to ROS Kinetic nsec is truncated
\* and not rounded; the frequencies of FrequencyInputs give the same
\* duration both ways.)
DurationFromSec(f) ==
  LET sec == 1 \div f
      nsec == RoundDiv((1 % f) * NSecPerSec, f)
  IN  [sec |-> sec + (nsec \div NSecPerSec), nsec |-> nsec % NSecPerSec]

\* ros::Time::operator<
TimeBefore(a, b) ==
  \/ a.sec < b.sec
  \/ a.sec = b.sec /\ a.nsec < b.nsec

\* ros::Time::operator+=(ros::Duration), the duration not negative
TimePlus(a, d) ==
  LET nsec == a.nsec + d.nsec
  IN  [sec |-> a.sec + d.sec + (nsec \div NSecPerSec),
       nsec |-> nsec % NSecPerSec]

\* Eigen::Affine3d::Identity()
AffineIdentity == Translation3d(Vector3d(0, 0, 0))

\* geometry_msgs::TransformStamped; the transform is kept as the affine
\* transform it was converted from
TransformStamped(frame_id, child_frame_id, transform) ==
  [stamp |-> NoTime, frame_id |-> frame_id,
   child_frame_id |-> child_frame_id, transform |-> transform]

\* the option tf-frequency: not positive, the default, and frequencies up
\* to and above one per nanosecond
FrequencyInputs == {0 - 1, 0, 1, 10, NSecPerSec, 2147483647}

\* what get_json_file_as_string returns and Parse makes of it
JsonTextInputs == {"", "malformed", "json"}

\* the ego-dimensions of the configuration: a box, a box that is not
\* ordered in x and a box with a bound that is not finite
EgoDimensionsInputs ==
  { << Double(0 - 1), Double(2), Double(0 - 1), Double(1), Double(0),
       Double(1) >>,
    << Double(1), Double(1), Double(0 - 1), Double(1), Double(0),
       Double(1) >>,
    << Double(0 - 1), Double(2), Double(0 - 1), Infinity(1), Double(0),
       Double(1) >> }

\* the view of one sensor in the configuration: axes that span a plane,
\* a y-axis that is twice the x-axis, an x-axis that is zero, and an origin
\* that is not finite
ViewInputs ==
  { [x |-> Vector3d(1, 0, 0), y |-> Vector3d(0, 1, 0),
     o |-> Vector3d(1, 0, 0 - 1)],
    [x |-> Vector3d(1, 0, 0), y |-> Vector3d(2, 0, 0),
     o |-> Vector3d(1, 0, 0 - 1)],
    [x |-> Vector3d(0, 0, 0), y |-> Vector3d(0, 1, 0),
     o |-> Vector3d(1, 0, 0 - 1)],
    [x |-> Vector3d(1, 0, 0), y |-> Vector3d(0, 1, 0),
     o |-> NonFiniteVector] }

\* the begin and end time of the reference bag
TimeSpanInputs ==
  { [begin_time |-> [sec |-> 1, nsec |-> 0], end_time |-> e] :
      e \in { [sec |-> 1, nsec |-> 0], [sec |-> 1, nsec |-> 2],
              [sec |-> 3, nsec |-> 0] } }

\* the command line is parsed: help, the required options, tf-frequency
ParseCommandLine ==
  /\ drv_pc = "main"
  /\ \E help_requested \in BOOLEAN, required_given \in BOOLEAN,
        f \in FrequencyInputs :
       IF help_requested
         THEN drv_pc' = "EXIT_SUCCESS" /\ UNCHANGED tf_frequency
       ELSE IF ~required_given
         THEN drv_pc' = "EXIT_FAILURE" /\ UNCHANGED tf_frequency
       ELSE /\ tf_frequency' = f
            /\ drv_pc' = IF f <= 0 THEN "EXIT_FAILURE" ELSE "options"
  /\ UNCHANGED <<drv_ego_shape, loopVars, bagVars, notDriverVars>>

\* the JSON for the vehicle/sensor config is read and parsed
ReadSensorConfig ==
  /\ drv_pc = "options"
  /\ \E sensor_config_json_string \in JsonTextInputs :
       drv_pc' = IF sensor_config_json_string = "" THEN "EXIT_FAILURE"
                 ELSE IF sensor_config_json_string = "malformed"
                   THEN "EXIT_FAILURE"
                 ELSE "config"
  /\ UNCHANGED <<tf_frequency, drv_ego_shape, loopVars, bagVars,
                 notDriverVars>>

\* the JSON schema is read and parsed
ReadSchema ==
  /\ drv_pc = "config"
  /\ \E schema_string \in JsonTextInputs :
       drv_pc' = IF schema_string = "" THEN "EXIT_FAILURE"
                 ELSE IF schema_string = "malformed" THEN "EXIT_FAILURE"
                 ELSE "schema"
  /\ UNCHANGED <<tf_frequency, drv_ego_shape, loopVars, bagVars,
                 notDriverVars>>

\* the config is validated against the schema
ValidateConfig ==
  /\ drv_pc = "schema"
  /\ \E accepted \in BOOLEAN :
       drv_pc' = IF ~accepted THEN "EXIT_FAILURE" ELSE "validated"
  /\ UNCHANGED <<tf_frequency, drv_ego_shape, loopVars, bagVars,
                 notDriverVars>>

\* the ego vehicle shape message is built
BuildEgoShape ==
  /\ drv_pc = "validated"
  /\ \E d \in EgoDimensionsInputs :
       IF ~verify_ego_bbox_params(d[1], d[2], d[3], d[4], d[5], d[6])
         THEN drv_pc' = "EXIT_FAILURE" /\ UNCHANGED drv_ego_shape
       ELSE /\ drv_ego_shape' =
                 build_ego_shape_msg(d[1], d[2], d[3], d[4], d[5], d[6])
            /\ drv_pc' = "sensors"
  /\ UNCHANGED <<tf_frequency, loopVars, bagVars, notDriverVars>>

\* ++i of the loop over the positions and, at its end, the next name of the
\* loop over the sensor types
NextPosition ==
  IF sensor_i + 1 < Len(get_sensors)
    THEN sensor_i' = sensor_i + 1 /\ name_idx' = name_idx
  ELSE sensor_i' = 0 /\ name_idx' = name_idx + 1

\* the positions the body of the loop leaves with continue
NoSensorAt(is_camera, is_lidar, i) ==
  \/ is_lidar
       /\ (SIDE_LEFT_IDX = i \/ SIDE_RIGHT_IDX = i \/ REAR_CENTER_IDX = i)
  \/ is_camera /\ (REAR_LEFT_IDX = i \/ REAR_RIGHT_IDX = i)

\* one pass through the body of the loop over the sensor positions
SensorPose ==
  /\ drv_pc = "sensors"
  /\ name_idx <= 2
  /\ LET name == IF name_idx = 1 THEN CAMERAS ELSE LIDARS
         is_camera == (name = CAMERAS)
         is_lidar == (name = LIDARS)
         frame == get_sensors[sensor_i + 1]
     IN  IF NoSensorAt(is_camera, is_lidar, sensor_i)
           THEN NextPosition /\ UNCHANGED <<drv_pc, lookups, msgtf>>
         ELSE \E view \in ViewInputs :
           LET b == get_orthonormal_basis(view.x, view.y, EPS_RECIPROCAL)
               o == view.o
           IN  /\ lookups' = lookups \cup {<<name, frame>>}
               /\ IF ~vector_is_valid(o) \/ IsZero(b)
                    THEN /\ drv_pc' = "EXIT_FAILURE"
                         /\ UNCHANGED <<name_idx, sensor_i, msgtf>>
                  ELSE /\ msgtf' = msgtf \o
                            << TransformStamped("chassis",
                                 tf_frame_name(name, frame),
                                 Tx_global_sensor(b, o)),
                               TransformStamped("wheels", "chassis",
                                 AffineIdentity) >>
                       /\ NextPosition
                       /\ UNCHANGED drv_pc
  /\ UNCHANGED <<tf_frequency, drv_ego_shape, bagVars, notDriverVars>>

\* the time span of the reference bag is read, the step is computed and the
\* output bag is opened
OpenBag ==
  /\ drv_pc = "sensors"
  /\ name_idx = 3
  /\ \E span \in TimeSpanInputs :
       /\ t_loop' = span.begin_time
       /\ end_time' = span.end_time
  /\ step' = DurationFromSec(tf_frequency)
  /\ bag_mode' = "write"
  /\ drv_pc' = "emitting"
  /\ UNCHANGED <<bag, tf_frequency, drv_ego_shape, loopVars, notDriverVars>>

\* one iteration of the emission loop, and t += step
WriteBatch ==
  /\ drv_pc = "emitting"
  /\ TimeBefore(t_loop, end_time)
  /\ Len(bag) < 2 * MaxBatches
  /\ msgtf' = [k \in 1..Len(msgtf) |-> [msgtf[k] EXCEPT !.stamp = t_loop]]
  /\ bag' = bag \o << [topic |-> "/tf", time |-> t_loop],
                      [topic |-> "/a2d2/ego_shape", time |-> t_loop] >>
  /\ t_loop' = TimePlus(t_loop, step)
  /\ UNCHANGED <<drv_pc, tf_frequency, drv_ego_shape, name_idx, sensor_i,
                 lookups, end_time, step, bag_mode, notDriverVars>>

\* the loop is left, the bag is closed and main returns
CloseBag ==
  /\ drv_pc = "emitting"
  /\ ~TimeBefore(t_loop, end_time)
  /\ bag_mode' = "closed"
  /\ drv_pc' = "EXIT_SUCCESS"
  /\ UNCHANGED <<tf_frequency, drv_ego_shape, loopVars, end_time, step,
                 t_loop, bag, notDriverVars>>

NextDriver ==
  \/ ParseCommandLine
  \/ ReadSensorConfig
  \/ ReadSchema
  \/ ValidateConfig
  \/ BuildEgoShape
  \/ SensorPose
  \/ OpenBag
  \/ WriteBatch
  \/ CloseBag

SpecDriver == Init /\ [][NextDriver]_vars

-----------------------------------------------------------------------------
(* C1: valid_ros_timestamp(us) is true exactly when                        *)
(* us <= 4294967295999999, and false for every us >= 4294967296000000.     *)

C1_RepresentableIffBelowBound ==
  call = "valid_ros_timestamp" =>
    /\ valid <=> U64Leq(time, LastRepresentable)
    /\ U64Leq(FirstUnrepresentable, time) => ~valid
    /\ valid <=> U64Leq(in_secs, U64FromU32(UINT32_MAX))

C1_Witness ==
  /\ call = "valid_ros_timestamp"
  /\ time = LastRepresentable
  /\ valid

-----------------------------------------------------------------------------
(* C2: a2d2_timestamp_to_ros_time(1000000*s + ms) is exactly the pair      *)
(* (s, 1000*ms).                                                           *)

StampIs(s, ms) ==
  /\ U64FromU32(stamp.sec) = s
  /\ U64FromU32(stamp.nsec) = U64FromNat(ms * ONE_THOUSAND)

\* C2 as stated, for every s >= 0 whose microseconds fit a uint64_t
C2_ExactForEverySecond ==
  call = "a2d2_timestamp_to_ros_time" => StampIs(in_secs, in_musecs)

\* C2 as amended: for every s up to 2^32 - 1, the largest seconds count of a
\* ros::Time, the result is exactly (s, 1000*ms)
C2_ExactWhenSecondsFit ==
  (call = "a2d2_timestamp_to_ros_time"
     /\ U64Leq(in_secs, U64FromU32(UINT32_MAX)))
    => StampIs(in_secs, in_musecs)

C2_Witness ==
  /\ call = "a2d2_timestamp_to_ros_time"
  /\ in_secs = U64FromU32(UINT32_MAX)
  /\ in_musecs = ONE_MILLION - 1
  /\ stamp.sec = UINT32_MAX

-----------------------------------------------------------------------------
(* What the validator's checks demand of a data set, stated field by field *)
(* and not in the order of the code.                                       *)

Validated == report # <<>>

PointsField == "pcloud_points"
TimestampField == "pcloud_attr.timestamp"
SignedInt64Fields ==
  {"pcloud_attr.timestamp", "pcloud_attr.rectime", "pcloud_attr.lidar_id"}
SignedPointFields == {"pcloud_attr.depth", "pcloud_attr.distance"}
SchemaFields ==
  {"pcloud_points", "pcloud_attr.azimuth", "pcloud_attr.boundary",
   "pcloud_attr.col", "pcloud_attr.depth", "pcloud_attr.distance",
   "pcloud_attr.lidar_id", "pcloud_attr.rectime", "pcloud_attr.reflectance",
   "pcloud_attr.row", "pcloud_attr.timestamp", "pcloud_attr.valid"}

HasNegative(m, f) ==
  IF f \in SignedInt64Fields
  THEN \E i \in DOMAIN m[f].data : U64Less(U64FromDec(9223372, 36854, 775807), m[f].data[i])
  ELSE \E i \in DOMAIN m[f].data : m[f].data[i] < 0

HasUnrepresentable(m, f) ==
  \E i \in DOMAIN m[f].data : ~U64Leq(m[f].data[i], LastRepresentable)

CountOk(m) == Cardinality(DOMAIN m) = 12
PresenceOk(m) == SchemaFields \subseteq DOMAIN m
PointsShapeOk(m) ==
  PointsField \in DOMAIN m =>
    (Len(m[PointsField].shape) = 2 /\ m[PointsField].shape[2] = 3)
OneDimensional(m, f) == Len(m[f].shape) = 1
RowCountOk(m, f) ==
  (OneDimensional(m, f) /\ PointsField \in DOMAIN m
     /\ m[PointsField].shape # <<>>)
    => m[f].shape[1] = m[PointsField].shape[1]
SignOk(m, f) ==
  f \in SignedInt64Fields \cup SignedPointFields => ~HasNegative(m, f)
RangeOk(m, f) == f = TimestampField => ~HasUnrepresentable(m, f)

Attributes(m) == (DOMAIN m) \ {PointsField}

-----------------------------------------------------------------------------
(* C3: verify_npz_structure succeeds exactly when the data set has 12      *)
(* fields, every schema field is there, the points are N x 3, every other  *)
(* field is 1-D of length N, timestamp, rectime, lidar_id, depth and       *)
(* distance hold no negative value and every timestamp is representable;   *)
(* the signs of row and col and the range of rectime are not constrained.  *)

C3_SuccessIffAllChecksHold ==
  Validated =>
    (report.ok <=>
       /\ CountOk(npz)
       /\ PresenceOk(npz)
       /\ PointsShapeOk(npz)
       /\ \A f \in Attributes(npz) :
            /\ OneDimensional(npz, f)
            /\ RowCountOk(npz, f)
            /\ SignOk(npz, f)
            /\ RangeOk(npz, f))

\* a data set with a negative row and a rectime beyond the range is accepted
C3_Witness ==
  /\ Validated /\ report.ok
  /\ \E i \in DOMAIN npz["pcloud_attr.row"].data :
       npz["pcloud_attr.row"].data[i] < 0
  /\ \E i \in DOMAIN npz["pcloud_attr.rectime"].data :
       npz["pcloud_attr.rectime"].data[i] = FirstUnrepresentable

-----------------------------------------------------------------------------
(* C4: with several checks violated, verify_npz_structure reports the      *)
(* earliest violated check in the order (1) cardinality, (2) presence,     *)
(* (3) points shape, (4) row count, (5) dimensionality, (6) sign,          *)
(* (7) timestamp range.                                                    *)

ViolatedChecks(m) ==
  {c \in 1..7 :
     \/ c = 1 /\ ~CountOk(m)
     \/ c = 2 /\ ~PresenceOk(m)
     \/ c = 3 /\ ~PointsShapeOk(m)
     \/ c = 4 /\ \E f \in Attributes(m) : ~RowCountOk(m, f)
     \/ c = 5 /\ \E f \in Attributes(m) : ~OneDimensional(m, f)
     \/ c = 6 /\ \E f \in Attributes(m) : ~SignOk(m, f)
     \/ c = 7 /\ \E f \in Attributes(m) : ~RangeOk(m, f)}

CheckOf(kind) ==
  CASE kind = "field_count" -> 1
    [] kind = "missing_field" -> 2
    [] kind \in {"points_dims", "points_cols"} -> 3
    [] kind = "attr_rows" -> 4
    [] kind = "attr_dims" -> 5
    [] kind = "sign" -> 6
    [] kind = "timestamp_range" -> 7
    [] OTHER -> 0

\* C4 as stated
C4_EarliestCheckInStatedOrder ==
  (Validated /\ ~report.ok) =>
    \A c \in ViolatedChecks(npz) : CheckOf(report.kind) <= c

\* the position of a field in the iteration order of the map
KeyIndex(f) == CHOOSE k \in DOMAIN KeyOrder : KeyOrder[k] = f

\* the checks of one attribute in the order of the loop body
FieldChecks(m, f) ==
  << OneDimensional(m, f), RowCountOk(m, f), SignOk(m, f), RangeOk(m, f) >>
FieldKinds == << "attr_dims", "attr_rows", "sign", "timestamp_range" >>
FieldFails(m, f) == \E c \in 1..4 : ~FieldChecks(m, f)[c]

\* C4 as amended: the report is the first violation in the order
\* cardinality, presence, points shape, and then attribute by attribute in
\* the order of their names: dimensionality, row count, sign, timestamp
\* range. A violation of any kind on an attribute earlier in that order is
\* reported in preference to any violation on a later attribute.
C4_FirstViolationInLoopOrder ==
  (Validated /\ ~report.ok) =>
    IF ~CountOk(npz) THEN report.kind = "field_count"
    ELSE IF ~PresenceOk(npz)
    THEN /\ report.kind = "missing_field"
         /\ report.field \in SchemaFields \ DOMAIN npz
    ELSE IF ~PointsShapeOk(npz)
    THEN /\ report.kind \in {"points_dims", "points_cols"}
         /\ report.field = PointsField
    ELSE /\ report.field \in Attributes(npz)
         /\ FieldFails(npz, report.field)
         /\ \A f \in Attributes(npz) :
              FieldFails(npz, f) => KeyIndex(report.field) <= KeyIndex(f)
         /\ \E c \in 1..4 :
              /\ report.kind = FieldKinds[c]
              /\ ~FieldChecks(npz, report.field)[c]
              /\ \A b \in 1..(c - 1) : FieldChecks(npz, report.field)[b]

\* a sign error is reported although a later field has too many dimensions
C4_Witness ==
  /\ Validated /\ report.kind = "sign"
  /\ \E f \in Attributes(npz) : ~OneDimensional(npz, f)

-----------------------------------------------------------------------------
(* C5: removing any one required field from a data set that validates      *)
(* makes verify_npz_structure fail with a structure error (field count or  *)
(* missing field), never with a sign or timestamp-range error.             *)

C5_RemovedFieldIsStructureError ==
  (prev_ok /\ edit.kind = "remove") =>
    /\ ~report.ok
    /\ report.kind \in {"field_count", "missing_field"}

C5_Witness ==
  /\ prev_ok /\ edit.kind = "remove" /\ edit.field = TimestampField
  /\ report.kind = "field_count"

-----------------------------------------------------------------------------
(* C6: setting one element of the timestamp field of a data set that       *)
(* validates to 4294967296000000 makes verify_npz_structure fail with the  *)
(* timestamp-range error that reports this value, and with no other.       *)

C6_UnrepresentableTimestampIsRangeError ==
  (prev_ok /\ edit.kind = "set" /\ edit.field = TimestampField
     /\ edit.value = <<FirstUnrepresentable>>)
    => report = Report("timestamp_range", TimestampField, FirstUnrepresentable)

\* the element set is the last of two
C6_Witness ==
  /\ prev_ok /\ edit.kind = "set" /\ edit.field = TimestampField
  /\ Len(npz[TimestampField].data) = 2
  /\ npz[TimestampField].data[2] = FirstUnrepresentable
  /\ npz[TimestampField].data[1] # FirstUnrepresentable
  /\ report.kind = "timestamp_range"

-----------------------------------------------------------------------------
(* C7: making one element negative in one of timestamp, rectime, lidar_id, *)
(* depth, distance of a data set that validates makes verify_npz_structure *)
(* fail with a sign error that names that field.                           *)

\* the value the last change wrote is negative
WroteNegative ==
  IF edit.field \in SignedInt64Fields
  THEN U64Less(U64FromDec(9223372, 36854, 775807), edit.value[1])
  ELSE edit.value[1] < 0

C7_NegativeValueIsSignError ==
  (prev_ok /\ edit.kind = "set"
     /\ edit.field \in SignedInt64Fields \cup SignedPointFields
     /\ WroteNegative)
    => report = Report("sign", edit.field, <<>>)

C7_Witness ==
  /\ prev_ok /\ edit.kind = "set" /\ edit.field = "pcloud_attr.depth"
  /\ edit.value = <<-1>>
  /\ report.kind = "sign" /\ report.field = "pcloud_attr.depth"

-----------------------------------------------------------------------------
(* What an orthonormal basis is: every column v / sqrt(n2) has length 1,   *)
(* that is |v|^2 = n2, and the columns are pairwise orthogonal.            *)

UnitLength(col) == SquaredNorm(col.v) = col.n2 /\ col.n2 > 0

Orthonormal(b) ==
  /\ \A c \in 1..3 : UnitLength(b[c])
  /\ \A c \in 1..3, d \in 1..3 : c # d => Dot(b[c].v, b[d].v) = 0

BasisBuilt == pose_pc # "idle"

\* an axis vector of finite norm greater than epsilon
GoodAxis(a) == a.finite /\ a.v # <<0, 0, 0>>

-----------------------------------------------------------------------------
(* C8: for all X, Y of finite norm greater than epsilon with X not         *)
(* approximately equal to Y, parallel and antiparallel Y included,         *)
(* get_orthonormal_basis returns three pairwise orthogonal unit columns.   *)

C8_ValidAxesGiveOrthonormalBasis ==
  (BasisBuilt /\ GoodAxis(x_axis) /\ GoodAxis(y_axis)
     /\ ~IsApprox(x_axis.v, y_axis.v, EPS_RECIPROCAL))
    => Orthonormal(basis)

-----------------------------------------------------------------------------
(* C9: when Y is a positive multiple of X, or X or Y is the zero vector,   *)
(* or X or Y is not finite, get_orthonormal_basis returns the all-zero     *)
(* matrix.                                                                 *)

\* b = (p/q) * a for positive integers p, q
PositiveMultiple(a, b) ==
  \E p \in 1..MaxCoord, q \in 1..MaxCoord :
    \A i \in 1..3 : q * b[i] = p * a[i]

C9_DegenerateAxesGiveZeroBasis ==
  (BasisBuilt
     /\ \/ ~x_axis.finite \/ ~y_axis.finite
        \/ x_axis.v = <<0, 0, 0>> \/ y_axis.v = <<0, 0, 0>>
        \/ PositiveMultiple(x_axis.v, y_axis.v))
    => basis = ZeroBasis

-----------------------------------------------------------------------------
(* C10: the result of get_orthonormal_basis is the all-zero matrix or      *)
(* orthonormal, so that every basis that passes VERIFY_BASIS_ORIGIN and    *)
(* reaches Tx_global_sensor is orthonormal. Stated of the poses the driver *)
(* completes.                                                              *)

C10_BasisNeverPartiallyValid ==
  pose_pc = "transform" =>
    /\ basis = ZeroBasis \/ Orthonormal(basis)
    /\ Orthonormal(Tx.linear)

-----------------------------------------------------------------------------
(* C11: Tx_global_sensor(basis, origin) maps every point p to              *)
(* basis*p + origin, the rotation first and then the translation by        *)
(* origin; with the identity basis and the origin (0,0,0) it is the        *)
(* identity. The transform is affine, so it maps every p so exactly when   *)
(* its linear part is basis and its translation is origin; the points are  *)
(* mapped one by one where the columns of the basis are integer vectors.   *)

\* the column v / sqrt(n2) is an integer vector
IntegerColumn(col) ==
  \E k \in 1..col.n2 :
    k * k = col.n2 /\ \A r \in 1..3 : col.v[r] % k = 0

\* the matrix of integer columns that b is
AsIntegerMatrix(b) ==
  [c \in 1..3 |->
     LET k == CHOOSE k \in 1..b[c].n2 : k * k = b[c].n2
     IN  [v |-> [r \in 1..3 |-> b[c].v[r] \div k], n2 |-> 1]]

PointInputs ==
  {<<0, 0, 0>>, <<1, 0, 0>>, <<0, 1, 0>>, <<0, 0, 1>>, <<1, 2, 0 - 1>>}

\* A * p for an affine transform A of integer columns
TransformPoint(A, p) ==
  [r \in 1..3 |->
     MatVec(AsIntegerMatrix(A.linear), p)[r] + A.translation.v[r]]

\* basis*p + origin
RotateThenTranslate(b, o, p) ==
  [r \in 1..3 |->
     p[1] * AsIntegerMatrix(b)[1].v[r] + p[2] * AsIntegerMatrix(b)[2].v[r]
       + p[3] * AsIntegerMatrix(b)[3].v[r] + o.v[r]]

C11_TransformIsRotationThenTranslation ==
  pose_pc = "transform" =>
    /\ Tx.linear = basis
    /\ Tx.translation = origin
    /\ (\A c \in 1..3 : IntegerColumn(basis[c])) =>
         \A p \in PointInputs :
           TransformPoint(Tx, p) = RotateThenTranslate(basis, origin, p)
    /\ (basis = IdentityBasis /\ origin = Vector3d(0, 0, 0)) =>
         \A p \in PointInputs : TransformPoint(Tx, p) = p

\* a basis that swaps x and y and flips z, moved by (1,0,-1): the point
\* (1,2,-1) goes to (3,1,0)
C11_Witness ==
  /\ pose_pc = "transform"
  /\ x_axis = Vector3d(0, 1, 0) /\ y_axis = Vector3d(1, 0, 0)
  /\ origin = Vector3d(1, 0, 0 - 1)
  /\ TransformPoint(Tx, <<1, 2, 0 - 1>>) = <<3, 1, 0>>

-----------------------------------------------------------------------------
(* C12: verify_ego_bbox_params returns true exactly when all six bounds    *)
(* are finite and min < max strictly on each of x, y, z; whenever it       *)
(* returns true, build_ego_shape_msg yields the dimensions                 *)
(* (x_max-x_min, y_max-y_min, z_max-z_min), all strictly positive;         *)
(* (-1,1,-1,1,-1,1) gives (2,2,2) and an unordered x range gives false.    *)

\* the bounds of axis a (1, 2, 3 for x, y, z) are whole numbers, min < max
FiniteAndOrdered(b, a) ==
  /\ b[2 * a - 1].k = "num" /\ b[2 * a].k = "num"
  /\ b[2 * a - 1].v < b[2 * a].v

\* d is the double nearest to max - min of axis a
IsSideLength(d, b, a) ==
  LET side == b[2 * a].v - b[2 * a - 1].v
  IN  IF side <= MaxExtent THEN d = Double(side) ELSE d = Infinity(1)

C12_ValidBoxIffFiniteAndOrdered ==
  /\ bbox_pc # "idle" =>
       /\ ego_bbox_valid <=> \A a \in 1..3 : FiniteAndOrdered(bbox, a)
       /\ (bbox[1] = Double(1) /\ bbox[2] = Double(0 - 1)) => ~ego_bbox_valid
       /\ (\E a \in 1..3 : bbox[2 * a - 1] = bbox[2 * a]) => ~ego_bbox_valid
  /\ bbox_pc = "built" =>
       /\ ego_bbox_valid
       /\ \A a \in 1..3 :
            /\ IsSideLength(ego_shape_msg.dimensions[a], bbox, a)
            /\ DoubleLess(Double(0), ego_shape_msg.dimensions[a])
       /\ bbox = <<Double(0 - 1), Double(1), Double(0 - 1), Double(1),
                   Double(0 - 1), Double(1)>>
            => ego_shape_msg.dimensions = <<Double(2), Double(2), Double(2)>>

C12_Witness ==
  /\ bbox_pc = "built"
  /\ bbox = <<Double(0 - 1), Double(1), Double(0 - 1), Double(1),
              Double(0 - 1), Double(1)>>
  /\ ego_shape_msg.dimensions = <<Double(2), Double(2), Double(2)>>

-----------------------------------------------------------------------------
(* C13: for a validated data set of N points the iterators yield exactly N *)
(* records in the order of the indices 0..N-1, and after k <= N advances   *)
(* each of the 14 cursors (x, y, z and the 11 attributes) is at index k,   *)
(* so that a record is the same-index element of every array; the cursors  *)
(* only move forward.                                                      *)

\* the message fields the 14 cursors read
CursorFields == {"x", "y", "z"} \cup (SchemaFields \ {PointsField})

\* the cursors its read the 14 fields, one each, and are all at index k
InLockstepAt(its, k) ==
  /\ {its[i].field : i \in DOMAIN its} = CursorFields
  /\ Cardinality(DOMAIN its) = Cardinality(CursorFields)
  /\ \A i \in DOMAIN its : its[i].index = k

C13_IteratorsAdvanceInLockstep ==
  it_pc \in {"iterating", "iterated"} =>
    /\ npz_valid = "valid"
    /\ Len(records) <= PointRows(lidar_npz)
    /\ InLockstepAt(iters, Len(records))
    /\ \A k \in DOMAIN records : InLockstepAt(records[k], k - 1)
    /\ it_pc = "iterated" => Len(records) = PointRows(lidar_npz)

C13_Witness ==
  /\ it_pc = "iterated"
  /\ PointRows(lidar_npz) = 2
  /\ Len(records) = 2
  /\ \A i \in DOMAIN iters : iters[i].index = 2

-----------------------------------------------------------------------------
(* C14: A2D2_PointCloudIterators is only ever constructed after a          *)
(* successful verify_npz_structure on the data it reads, on the path of    *)
(* depth_image_from_a2d2_pointcloud as well.                               *)

C14_IteratorsOnlyOverValidatedData ==
  iters # <<>> => npz_valid = "valid"

-----------------------------------------------------------------------------
(* C15: DataPairTimeComparator orders by timestamp alone: it is a strict   *)
(* weak order in which two values of the same timestamp are equivalent     *)
(* whatever their frame identifiers and values, and sorting a list built   *)
(* by DataPair::build from representable microsecond timestamps gives      *)
(* ascending timestamp order: [5000000, 1000000, 3000000] becomes          *)
(* 1000000, 3000000, 5000000.                                              *)

\* neither is before the other
Equivalent(a, b) ==
  ~DataPairTimeComparator(a, b) /\ ~DataPairTimeComparator(b, a)

\* the DataPairs of the vector
Elements == {data_pairs[i] : i \in DOMAIN data_pairs}

\* 4294967295999999 microseconds, the largest representable
LargestRepresentable == U64FromDec(4294, 967295, 999999)

Representable(us) == U64Leq(us, LargestRepresentable)

\* the order is checked on the values of the vector as they are built: a
\* sorted vector holds the same values
C15_ComparatorOrdersByTimestampOnly ==
  /\ sort_pc = "building" =>
       /\ \A a \in Elements : ~DataPairTimeComparator(a, a)
       /\ \A a \in Elements, b \in Elements, c \in Elements :
            /\ (DataPairTimeComparator(a, b) /\ DataPairTimeComparator(b, c))
                 => DataPairTimeComparator(a, c)
            /\ (Equivalent(a, b) /\ Equivalent(b, c)) => Equivalent(a, c)
  /\ \A i \in DOMAIN data_pairs, j \in DOMAIN data_pairs :
       /\ sources[i] = sources[j] => Equivalent(data_pairs[i], data_pairs[j])
       /\ (Representable(sources[i]) /\ Representable(sources[j])) =>
            (DataPairTimeComparator(data_pairs[i], data_pairs[j])
               <=> U64Less(sources[i], sources[j]))
  /\ (sort_pc = "sorted" /\ \A i \in DOMAIN sources : Representable(sources[i]))
       => \A i \in DOMAIN sources, j \in DOMAIN sources :
            i < j => U64Leq(sources[i], sources[j])

\* 5000000 of frame a, 1000000 of frame b and 3000000 of frame a are sorted
C15_Witness ==
  /\ sort_pc = "sorted"
  /\ unsorted.sources =
       <<U64FromNat(5000000), U64FromNat(1000000), U64FromNat(3000000)>>
  /\ unsorted.data_pairs[1].header.frame_id = "a"
  /\ unsorted.data_pairs[2].header.frame_id = "b"
  /\ sources = <<U64FromNat(1000000), U64FromNat(3000000), U64FromNat(5000000)>>
  /\ data_pairs[1].header.frame_id = "b"

-----------------------------------------------------------------------------
(* C20: the conversion preserves the order on the representable range and  *)
(* only there: for us1 < us2 <= 4294967295999999 the time of us1 is        *)
(* strictly less than the time of us2 in the order by seconds and then by  *)
(* nanoseconds, the nanoseconds below 1000000000, so that                  *)
(* DataPairTimeComparator on values built by DataPair::build agrees with   *)
(* the order of the microseconds; 4294967296000000 is not after anything.  *)

\* the time a is before the time b: by (seconds, nanoseconds)
StampBefore(a, b) == U64Less(a.sec \o a.nsec, b.sec \o b.nsec)

StampOf(i) == data_pairs[i].header.stamp

C20_ConversionPreservesOrder ==
  \A i \in DOMAIN data_pairs, j \in DOMAIN data_pairs :
    /\ Representable(sources[i]) =>
         U64Less(U64FromU32(StampOf(i).nsec), U64FromNat(10 ^ 9))
    /\ (U64Less(sources[i], sources[j]) /\ Representable(sources[j])) =>
         /\ StampBefore(StampOf(i), StampOf(j))
         /\ DataPairTimeComparator(data_pairs[i], data_pairs[j])
         /\ ~DataPairTimeComparator(data_pairs[j], data_pairs[i])
    /\ (U64Less(sources[i], sources[j])
          /\ sources[j] = U64FromDec(4294, 967296, 0)) =>
         /\ ~StampBefore(StampOf(i), StampOf(j))
         /\ ~DataPairTimeComparator(data_pairs[i], data_pairs[j])

\* 999999 is before 4294967295999999, which 4294967296000000 is not after
C20_Witness ==
  /\ sort_pc = "building"
  /\ sources = <<U64FromNat(999999), LargestRepresentable,
                 U64FromDec(4294, 967296, 0)>>
  /\ DataPairTimeComparator(data_pairs[1], data_pairs[2])
  /\ DataPairTimeComparator(data_pairs[3], data_pairs[2])

-----------------------------------------------------------------------------
(* C16: get_sensors() and get_files() each hold 8 pairwise distinct        *)
(* entries aligned by index; get_camera_name_from_frame_name maps the i-th *)
(* on-disk name to the i-th canonical position name, and every string that *)
(* is not one of the 8 on-disk names to the empty string.                  *)

\* the canonical position names and their on-disk names, in the one order
PositionNames ==
  << "front_center", "front_left", "front_right", "side_left", "side_right",
     "rear_center", "rear_left", "rear_right" >>
OnDiskNames ==
  << "frontcenter", "frontleft", "frontright", "sideleft", "sideright",
     "rearcenter", "rearleft", "rearright" >>

\* the 8 entries of the table t are pairwise distinct
EightDistinct(t) ==
  /\ DOMAIN t = 1..8
  /\ \A i \in 1..8, j \in 1..8 : t[i] = t[j] => i = j

C16_SensorTablesAreABijection ==
  /\ EightDistinct(get_sensors) /\ EightDistinct(get_files)
  /\ get_sensors = PositionNames /\ get_files = OnDiskNames
  /\ name_pc = "camera" =>
       /\ \A i \in 1..8 :
            frame_name = OnDiskNames[i] => camera_name = PositionNames[i]
       /\ (\A i \in 1..8 : frame_name # OnDiskNames[i]) => camera_name = ""

\* the last on-disk name, found in a file name, gives the last position
C16_Witness ==
  /\ name_pc = "camera"
  /\ filename = <<"lidar", "rearright">>
  /\ frame_name = "rearright"
  /\ camera_name = "rear_right"


-----------------------------------------------------------------------------
(* What main has validated and built, read off its state.                  *)

\* the transforms of msgtf from a sensor to the chassis, in their order
SensorTransforms == SelectSeq(msgtf, LAMBDA m : m.frame_id = "chassis")

\* the (type, position) pairs at which the vehicle has a sensor
ExistingPairs ==
  { <<"cameras", p>> :
      p \in { "front_center", "front_left", "front_right", "side_left",
              "side_right", "rear_center" } }
    \cup
  { <<"lidars", p>> :
      p \in { "front_center", "front_left", "front_right", "rear_left",
              "rear_right" } }

\* the frame names of the sensors, in the order main visits them
ExistingFrameNames ==
  << "cameras_front_center", "cameras_front_left", "cameras_front_right",
     "cameras_side_left", "cameras_side_right", "cameras_rear_center",
     "lidars_front_center", "lidars_front_left", "lidars_front_right",
     "lidars_rear_left", "lidars_rear_right" >>

\* every sensor has a transform of finite origin and orthonormal basis
EverySensorValid ==
  /\ name_idx = 3
  /\ lookups = ExistingPairs
  /\ \A k \in 1..Len(SensorTransforms) :
       /\ vector_is_valid(SensorTransforms[k].transform.translation)
       /\ Orthonormal(SensorTransforms[k].transform.linear)

-----------------------------------------------------------------------------
(* C17: main is fail-fast with no partial output. When it exits with       *)
(* failure, whatever failed, the output bag was never opened and holds no  *)
(* message; and the bag is opened and written only after the ego shape was *)
(* built from a valid box and every sensor was given a valid origin and a  *)
(* valid, that is orthonormal, basis.                                      *)

C17_FailFastWithNoPartialOutput ==
  /\ drv_pc = "EXIT_FAILURE" => (bag_mode = "unopened" /\ bag = <<>>)
  /\ bag_mode # "unopened" => (drv_ego_shape # <<>> /\ EverySensorValid)
  /\ bag # <<>> => bag_mode # "unopened"

-----------------------------------------------------------------------------
(* C18: main looks up the configuration of, and builds a transform from    *)
(* the sensor to the chassis for, exactly the (type, position) pairs that  *)
(* exist: the 6 cameras first, then the 5 lidars, never a camera at        *)
(* rear_left or rear_right nor a lidar at side_left, side_right or         *)
(* rear_center. The child frame of each is type_position and its parent    *)
(* is the chassis. Once both loops are done every existing pair has been   *)
(* looked up and has its transform.                                        *)

C18_TransformsForExistingSensorsOnly ==
  /\ lookups \subseteq ExistingPairs
  /\ Len(SensorTransforms) <= Len(ExistingFrameNames)
  /\ \A k \in 1..Len(SensorTransforms) :
       SensorTransforms[k].child_frame_id = ExistingFrameNames[k]
  /\ Cardinality(lookups) \in
       IF drv_pc = "EXIT_FAILURE" /\ lookups # {}
         THEN {Len(SensorTransforms) + 1}
       ELSE {Len(SensorTransforms)}
  /\ (drv_pc = "sensors" /\ name_idx = 3) =>
       /\ lookups = ExistingPairs
       /\ Len(SensorTransforms) = Len(ExistingFrameNames)

\* main has completed: the 11 sensor transforms are in msgtf, each followed
\* by the transform from the wheels to the chassis, and were written
C18_Witness ==
  /\ drv_pc = "EXIT_SUCCESS"
  /\ bag_mode = "closed"
  /\ bag # <<>>
  /\ Len(msgtf) = 22
  /\ Len(SensorTransforms) = 11
  /\ SensorTransforms[11].child_frame_id = "lidars_rear_right"
  /\ <<"lidars", "rear_right">> \in lookups
  /\ <<"lidars", "rear_center">> \notin lookups

-----------------------------------------------------------------------------
(* C19: the emission loop terminates. For every frequency main accepts,    *)
(* any value > 0, t strictly increases on every iteration: every batch     *)
(* written so far carries a time before the t of the iteration to come,    *)
(* so that only finitely many batches are written before t reaches the end *)
(* time and the bag is closed.                                             *)

C19_EmissionLoopAdvances ==
  \A k \in 1..Len(bag) : TimeBefore(bag[k].time, t_loop)

-----------------------------------------------------------------------------
(* The number that 8 bytes are, read as int64_t and read as uint64_t: its  *)
(* sign and its magnitude. static_cast<uint64_t> keeps the bytes, so it    *)
(* keeps the value exactly when the two readings are the same number.      *)

\* above INT64_MAX as uint64_t: the sign bit is set
NegativeAsInt64(v) == U64Less(U64FromDec(9223372, 36854, 775807), v)

Int64Value(v) ==
  IF NegativeAsInt64(v)
  THEN [negative |-> TRUE, magnitude |-> U64Sub(U64FromNat(0), v)]
  ELSE [negative |-> FALSE, magnitude |-> v]

Uint64Value(v) == [negative |-> FALSE, magnitude |-> v]

\* the validation went through the timestamp field as far as its range
\* check: it passed, or reports a range error, or reports a field that
\* comes after the timestamp in the order of the loop
RangeCheckRan ==
  \/ report.ok
  \/ report.kind = "timestamp_range"
  \/ /\ report.kind \in {"attr_dims", "attr_rows", "sign"}
     /\ KeyIndex(report.field) > KeyIndex(TimestampField)

-----------------------------------------------------------------------------
(* C21: in verify_npz_structure the range check of the timestamp field     *)
(* runs only after its sign check has passed. Whenever the range check ran *)
(* every timestamp element is non-negative as int64_t and the cast to      *)
(* uint64_t left its value as it was; a data set with a negative timestamp *)
(* element is never reported with a timestamp-range error, and when the    *)
(* report is about the values of the timestamp field it is a sign error.   *)

C21_RangeCheckOnlyOnNonNegativeTimestamps ==
  TimestampField \in DOMAIN npz =>
    LET data == npz[TimestampField].data
        negative == \E i \in DOMAIN data : NegativeAsInt64(data[i])
    IN  /\ RangeCheckRan =>
             \A i \in DOMAIN data :
               /\ ~NegativeAsInt64(data[i])
               /\ Int64Value(data[i]) = Uint64Value(data[i])
        /\ report.kind = "timestamp_range" =>
             /\ report.field = TimestampField
             /\ Int64Value(report.value) = Uint64Value(report.value)
        /\ negative => report.kind # "timestamp_range"
        /\ (negative /\ report.field = TimestampField
              /\ report.kind \notin {"attr_dims", "attr_rows"}) =>
             report = Report("sign", TimestampField, <<>>)

\* the first timestamp is past the last representable one and the second
\* is -1: the report is the sign error
C21_Witness ==
  /\ TimestampField \in DOMAIN npz
  /\ npz[TimestampField].data = <<FirstUnrepresentable, I64MinusOne>>
  /\ report = Report("sign", TimestampField, <<>>)

====
